---- MODULE Spec2Model ----
(***************************************************************************)
(* rusdle: the word corpus (WordSet), the guess evaluator (compare_guess)  *)
(* and the session state machine (RusdleState) of src/src/game.rs.         *)
(*                                                                         *)
(* A char is its Unicode code point (65 = 'A', 97 = 'a', 49 = '1',         *)
(* 233 = e-acute), a String the sequence of its chars, an Option<T> the     *)
(* sequence of at most one T, and a HashMap<char, u8> a function whose     *)
(* DOMAIN is its key set.                                                  *)
(***************************************************************************)
EXTENDS Integers, Sequences, FiniteSets, TLC

VARIABLES
    wordlist,       \* WordSet.wordlist: Vec<String>
    valid_guesses,  \* WordSet.valid_guesses: Vec<String>
    target,         \* RusdleState.target: Vec<char>
    entry,          \* RusdleState.entry: String
    last_error,     \* RusdleState.last_error: Option<String>
    guesses,        \* RusdleState.guesses: Vec<(String, [u8; 5])>
    clues,          \* RusdleState.clues: HashMap<char, u8>
    guess,          \* the argument of the latest compare_guess call
    result,         \* the value the latest compare_guess call returned
    pc,             \* where main is: "start", "loaded", "load_error", "session", "panic"
    cli,            \* Cli: word_list, dictionary (the two sources) and mode
    clock,          \* Local::now(): the local date and its UTC offset, against the epoch's
    query,          \* the argument of the latest direct is_valid call
    answer          \* the value the latest direct is_valid call returned

vars == <<wordlist, valid_guesses, target, entry, last_error, guesses, clues,
          guess, result, pc, cli, clock, query, answer>>

\* What handle_input and compare_guess never touch.
host == <<pc, cli, clock, query, answer>>

(***************************************************************************)
(* Bounds of the model.                                                    *)
(***************************************************************************)
\* handle_input never bounds guesses itself: the model stops accepting
\* guesses once MaxGuesses are recorded.
MaxGuesses == 7

(***************************************************************************)
(* Clue codes.                                                             *)
(***************************************************************************)
RES_DEFAULT == 0
RES_WRONG == 1
RES_PRESENT == 2
RES_CORRECT == 3

(***************************************************************************)
(* chars and strings of the standard library, as the code uses them.       *)
(***************************************************************************)
\* char::to_ascii_uppercase: only a..z change.
to_ascii_uppercase(c) == IF c \in 97..122 THEN c - 32 ELSE c

\* char lowercasing of str::to_lowercase, on ASCII and Latin-1.
char_to_lowercase(c) ==
    IF c \in 65..90 \/ (c \in 192..222 /\ c # 215) THEN c + 32 ELSE c

\* str::to_lowercase
to_lowercase(s) == [i \in 1..Len(s) |-> char_to_lowercase(s[i])]

\* str::to_ascii_uppercase
str_to_ascii_uppercase(s) == [i \in 1..Len(s) |-> to_ascii_uppercase(s[i])]

\* char::len_utf8
len_utf8(c) == IF c < 128 THEN 1 ELSE IF c < 2048 THEN 2 ELSE IF c < 65536 THEN 3 ELSE 4

\* String::len: the length in bytes of the UTF-8 encoding.
RECURSIVE str_len(_)
str_len(s) == IF s = <<>> THEN 0 ELSE len_utf8(Head(s)) + str_len(Tail(s))

\* Vec::contains
contains(v, x) == \E i \in 1..Len(v) : v[i] = x

\* "Word '" and "' is not valid.", the pieces of the format string.
MsgPrefix == <<87, 111, 114, 100, 32, 39>>
MsgSuffix == <<39, 32, 105, 115, 32, 110, 111, 116, 32, 118, 97, 108, 105, 100, 46>>

\* format!("Word '{}' is not valid.", entry)
format_error(e) == MsgPrefix \o e \o MsgSuffix

(***************************************************************************)
(* WordSet                                                                 *)
(***************************************************************************)
is_valid(word) ==
    LET needle == to_lowercase(word)
    IN  contains(wordlist, needle) \/ contains(valid_guesses, needle)

(***************************************************************************)
(* The evaluator.                                                          *)
(***************************************************************************)
\* A pool that keeps every target letter, the positionally matched ones too.
RECURSIVE unmatched_keeps_matched(_, _, _)
unmatched_keeps_matched(t, g, i) ==
    IF i > Len(t) \/ i > Len(g) THEN <<>>
    ELSE <<t[i]>> \o unmatched_keeps_matched(t, g, i + 1)

\* The pool of compare_guess: the target letters at the positions where the
\* guess differs, in target order (zip stops at the shorter of the two).
RECURSIVE unmatched_from(_, _, _)
unmatched_from(t, g, i) ==
    IF i > Len(t) \/ i > Len(g) THEN <<>>
    ELSE (IF t[i] # g[i] THEN <<t[i]>> ELSE <<>>) \o unmatched_from(t, g, i + 1)

\* MutVecExt::remove_item, the vector after the call: one occurrence of c
\* removed when there is one.
remove_item(v, c) ==
    IF contains(v, c)
    THEN LET k == CHOOSE i \in 1..Len(v) : v[i] = c /\ \A j \in 1..(i - 1) : v[j] # c
         IN  [i \in 1..(Len(v) - 1) |-> IF i < k THEN v[i] ELSE v[i + 1]]
    ELSE v

\* The byte offset char_indices gives the k-th char of g.
RECURSIVE byte_offset(_, _)
byte_offset(g, k) == IF k <= 1 THEN 0 ELSE byte_offset(g, k - 1) + len_utf8(g[k - 1])

\* The closure with its two tests in the other order: the pool is asked
\* before the position is compared.
RECURSIVE clues_from_pool_first(_, _, _, _)
clues_from_pool_first(t, g, k, unmatched) ==
    IF k > Len(g) THEN <<>>
    ELSE IF contains(unmatched, g[k])
         THEN <<RES_PRESENT>> \o clues_from_pool_first(t, g, k + 1, remove_item(unmatched, g[k]))
         ELSE IF g[k] = t[byte_offset(g, k) + 1]
              THEN <<RES_CORRECT>> \o clues_from_pool_first(t, g, k + 1, unmatched)
              ELSE <<RES_WRONG>> \o clues_from_pool_first(t, g, k + 1, unmatched)

\* The map closure of compare_guess over the chars of g from the k-th on,
\* with the pool as the earlier chars left it.
RECURSIVE clues_from(_, _, _, _)
clues_from(t, g, k, unmatched) ==
    IF k > Len(g) THEN <<>>
    ELSE IF g[k] = t[byte_offset(g, k) + 1]
         THEN <<RES_CORRECT>> \o clues_from(t, g, k + 1, unmatched)
         ELSE IF contains(unmatched, g[k])
              THEN <<RES_PRESENT>> \o clues_from(t, g, k + 1, remove_item(unmatched, g[k]))
              ELSE <<RES_WRONG>> \o clues_from(t, g, k + 1, unmatched)

\* An evaluator that computes Present by membership in the target.
compare_guess_by_membership(t, g) ==
    [k \in 1..Len(g) |->
        IF g[k] = t[k] THEN RES_CORRECT
        ELSE IF contains(t, g[k]) THEN RES_PRESENT ELSE RES_WRONG]

\* An evaluator that answers from the last record once the history has one.
compare_guess_cached(t, g) ==
    IF guesses # <<>>
    THEN guesses[Len(guesses)][2]
    ELSE clues_from(t, g, 1, unmatched_from(t, g, 1))

\* RusdleState::compare_guess, on target t.
compare_guess(t, g) == clues_from(t, g, 1, unmatched_from(t, g, 1))

\* The calls on which compare_guess panics: self.target[i] with the byte
\* offset i of a char of g at or past the end of the target, or try_into
\* on a vector that does not hold five clues.
compare_guess_aborts(t, g) ==
    \/ \E k \in 1..Len(g) : byte_offset(g, k) >= Len(t)
    \/ Len(g) # 5

(***************************************************************************)
(* The compare_guess of main.rs: the pool entry is found with position     *)
(* and removed with swap_remove.                                           *)
(***************************************************************************)
\* unmatched.iter().position(|x| *x == c): the first index that holds c,
\* counted from 1; 0 stands for None.
position(v, c) ==
    IF contains(v, c)
    THEN CHOOSE i \in 1..Len(v) : v[i] = c /\ \A j \in 1..(i - 1) : v[j] # c
    ELSE 0

\* Vec::swap_remove(idx), the vector after the call: the last element takes
\* the place of the removed one.
swap_remove(v, idx) ==
    [i \in 1..(Len(v) - 1) |-> IF i = idx THEN v[Len(v)] ELSE v[i]]

\* The closure of main.rs with the swap_remove left out: the pool entry is
\* found and stays.
RECURSIVE clues_from_main_keeps_pool(_, _, _, _)
clues_from_main_keeps_pool(t, g, k, unmatched) ==
    IF k > Len(g) THEN <<>>
    ELSE IF g[k] = t[byte_offset(g, k) + 1]
         THEN <<RES_CORRECT>> \o clues_from_main_keeps_pool(t, g, k + 1, unmatched)
         ELSE IF position(unmatched, g[k]) # 0
              THEN <<RES_PRESENT>> \o clues_from_main_keeps_pool(t, g, k + 1, unmatched)
              ELSE <<RES_WRONG>> \o clues_from_main_keeps_pool(t, g, k + 1, unmatched)

\* The map closure of main.rs's compare_guess over the chars of g from the
\* k-th on.
RECURSIVE clues_from_main(_, _, _, _)
clues_from_main(t, g, k, unmatched) ==
    IF k > Len(g) THEN <<>>
    ELSE IF g[k] = t[byte_offset(g, k) + 1]
         THEN <<RES_CORRECT>> \o clues_from_main(t, g, k + 1, unmatched)
         ELSE LET idx == position(unmatched, g[k])
              IN  IF idx # 0
                  THEN <<RES_PRESENT>>
                         \o clues_from_main(t, g, k + 1, swap_remove(unmatched, idx))
                  ELSE <<RES_WRONG>> \o clues_from_main(t, g, k + 1, unmatched)

\* RusdleState::compare_guess of main.rs, on target t.
compare_guess_main(t, g) == clues_from_main(t, g, 1, unmatched_from(t, g, 1))

(***************************************************************************)
(* RusdleState                                                             *)
(***************************************************************************)
\* An is_win that looks at the first record.
is_win_first ==
    /\ guesses # <<>>
    /\ guesses[1][2] = [i \in 1..5 |-> RES_CORRECT]

\* RusdleState::is_win
is_win ==
    /\ guesses # <<>>
    /\ guesses[Len(guesses)][2] = [i \in 1..5 |-> RES_CORRECT]

\* RusdleState::is_over
is_over == Len(guesses) = 6 \/ is_win

\* The merge by assignment: the latest clue of c wins.
merge_clue_last_wins(m, c, r) ==
    [x \in DOMAIN m \cup {c} |-> IF x = c THEN r ELSE m[x]]

\* The merge with its comparison turned: the entry is lowered to r.
merge_clue_lowers(m, c, r) ==
    LET inserted == IF c \in DOMAIN m THEN m ELSE [x \in DOMAIN m \cup {c} |-> IF x = c THEN r ELSE m[x]]
    IN  IF r < inserted[c] THEN [inserted EXCEPT ![c] = r] ELSE inserted

\* One step of the for_each of process_guess: the entry of c or-inserted
\* with r, then raised to r when r is greater.
merge_clue(m, c, r) ==
    LET inserted == IF c \in DOMAIN m THEN m ELSE [x \in DOMAIN m \cup {c} |-> IF x = c THEN r ELSE m[x]]
    IN  IF r > inserted[c] THEN [inserted EXCEPT ![c] = r] ELSE inserted

\* guess.chars().zip(result).for_each(...), from the k-th pair on.
RECURSIVE merge_clues(_, _, _, _)
merge_clues(m, g, r, k) ==
    IF k > Len(g) \/ k > Len(r) THEN m
    ELSE merge_clues(merge_clue(m, g[k], r[k]), g, r, k + 1)

\* RusdleState::new_with_target: the assertion and the fresh state.
new_with_target(words, guesses_list, t) ==
    /\ wordlist = words
    /\ valid_guesses = guesses_list
    /\ is_valid(t)
    /\ target = t
    /\ last_error = <<>>
    /\ entry = <<>>
    /\ guesses = <<>>
    /\ clues = <<>>
    /\ guess = <<>>
    /\ result = <<>>

\* A process_guess that clears the entry of a rejected word too.
process_guess_clears_rejected ==
    IF ~is_valid(entry)
    THEN /\ last_error' = <<format_error(entry)>>
         /\ entry' = <<>>
         /\ UNCHANGED <<guesses, clues, guess, result>>
    ELSE LET g == entry
             r == compare_guess(target, g)
         IN  /\ last_error' = <<>>
             /\ guess' = g
             /\ result' = r
             /\ clues' = merge_clues(clues, g, r, 1)
             /\ guesses' = Append(guesses, <<g, r>>)
             /\ entry' = <<>>

\* A process_guess that leaves the message standing when it accepts.
process_guess_keeps_error ==
    IF ~is_valid(entry)
    THEN /\ last_error' = <<format_error(entry)>>
         /\ UNCHANGED <<entry, guesses, clues, guess, result>>
    ELSE LET g == entry
             r == compare_guess(target, g)
         IN  /\ last_error' = last_error
             /\ guess' = g
             /\ result' = r
             /\ clues' = merge_clues(clues, g, r, 1)
             /\ guesses' = Append(guesses, <<g, r>>)
             /\ entry' = <<>>

\* RusdleState::process_guess
process_guess ==
    IF ~is_valid(entry)
    THEN /\ last_error' = <<format_error(entry)>>
         /\ UNCHANGED <<entry, guesses, clues, guess, result>>
    ELSE LET g == entry
             r == compare_guess(target, g)
         IN  /\ last_error' = <<>>
             /\ guess' = g
             /\ result' = r
             /\ clues' = merge_clues(clues, g, r, 1)
             /\ guesses' = Append(guesses, <<g, r>>)
             /\ entry' = <<>>

\* An Input that pushes the char as it was typed.
Input_no_uppercase(c) ==
    /\ IF str_len(entry) < 5
       THEN entry' = Append(entry, c)
       ELSE entry' = entry
    /\ UNCHANGED <<wordlist, valid_guesses, target, last_error, guesses, clues, guess, result, host>>

\* handle_input(GameInput::Input(c))
Input(c) ==
    /\ IF str_len(entry) < 5
       THEN entry' = Append(entry, to_ascii_uppercase(c))
       ELSE entry' = entry
    /\ UNCHANGED <<wordlist, valid_guesses, target, last_error, guesses, clues, guess, result, host>>

\* A Delete that also dismisses the error message.
Delete_clears_error ==
    /\ IF str_len(entry) > 0
       THEN entry' = SubSeq(entry, 1, Len(entry) - 1)
       ELSE entry' = entry
    /\ last_error' = <<>>
    /\ UNCHANGED <<wordlist, valid_guesses, target, guesses, clues, guess, result, host>>

\* handle_input(GameInput::Delete)
Delete ==
    /\ IF str_len(entry) > 0
       THEN entry' = SubSeq(entry, 1, Len(entry) - 1)
       ELSE entry' = entry
    /\ UNCHANGED <<wordlist, valid_guesses, target, last_error, guesses, clues, guess, result, host>>

\* handle_input(GameInput::Submit). When compare_guess panics the process
\* ends inside process_guess, which has cleared last_error by then.
Submit ==
    /\ Len(guesses) < MaxGuesses
    /\ IF str_len(entry) = 5 /\ is_valid(entry) /\ compare_guess_aborts(target, entry)
       THEN /\ pc' = "panic"
            /\ last_error' = <<>>
            /\ UNCHANGED <<entry, guesses, clues, guess, result>>
       ELSE /\ pc' = pc
            /\ IF str_len(entry) = 5
               THEN process_guess
               ELSE UNCHANGED <<entry, last_error, guesses, clues, guess, result>>
    /\ UNCHANGED <<wordlist, valid_guesses, target, cli, clock, query, answer>>

(***************************************************************************)
(* Cli, the sources of WordSet::load and the clock.                        *)
(***************************************************************************)
\* Option<PathBuf>: no path given, a path that cannot be read, or a file
\* with its lines.
NoPath == [kind |-> "none", lines |-> <<>>]
Unreadable == [kind |-> "unreadable", lines |-> <<>>]
FileOf(lines) == [kind |-> "file", lines |-> lines]

\* A session built by a caller that holds the corpus already (the tests, or
\* main once load and new have returned): main is past construction.
constructed ==
    /\ pc = "session"
    /\ cli = [word_list |-> NoPath, dictionary |-> NoPath, mode |-> "Wordle"]
    /\ clock = [days |-> 0, shift |-> 0]
    /\ query = <<>>
    /\ answer = FALSE

(***************************************************************************)
(* The session driven through handle_input with letter keys.               *)
(***************************************************************************)
\* "abbab"
WordAbbab == <<97, 98, 98, 97, 98>>
\* "babaa"
WordBabaa == <<98, 97, 98, 97, 97>>

\* 'a', 'B'
LetterKeys == {97, 66}

Init ==
    \E t \in {str_to_ascii_uppercase(WordAbbab)} :
        new_with_target(<<WordAbbab>>, <<WordBabaa>>, t) /\ constructed

Next ==
    \/ \E c \in LetterKeys : Input(c)
    \/ Delete
    \/ Submit

Spec == Init /\ [][Next]_vars

(***************************************************************************)
(* The session driven through handle_input with any char: GameInput::Input *)
(* carries a char, and handle_input takes whatever it is given.            *)
(***************************************************************************)
\* "aaaaa"
WordAaaaa == <<97, 97, 97, 97, 97>>

\* 'a', '1', e-acute (two bytes in UTF-8)
AnyKeys == {97, 49, 233}

InitAny ==
    \E t \in {str_to_ascii_uppercase(WordAaaaa)} :
        new_with_target(<<WordAaaaa>>, <<WordAaaaa>>, t) /\ constructed

NextAny ==
    \/ \E c \in AnyKeys : Input(c)
    \/ Delete
    \/ Submit

SpecAny == InitAny /\ [][NextAny]_vars

(***************************************************************************)
(* The evaluator called as the tests call it: test_game(target), then      *)
(* compare_guess(guess).                                                   *)
(***************************************************************************)
\* 'A', 'B', 'C'
EvalLetters == {65, 66, 67}

\* MATCH, NOOBS, FRAME, ABBEY: the targets of the scenarios.
WordMATCH == <<77, 65, 84, 67, 72>>
WordNOOBS == <<78, 79, 79, 66, 83>>
WordFRAME == <<70, 82, 65, 77, 69>>
WordABBEY == <<65, 66, 66, 69, 89>>
\* ROOTY, IGLOO, ELIDE, BABES: their guesses.
WordROOTY == <<82, 79, 79, 84, 89>>
WordIGLOO == <<73, 71, 76, 79, 79>>
WordELIDE == <<69, 76, 73, 68, 69>>
WordBABES == <<66, 65, 66, 69, 83>>

EvalTargets == [1..5 -> EvalLetters] \cup {WordMATCH, WordNOOBS, WordFRAME, WordABBEY}
EvalGuesses ==
    [1..5 -> EvalLetters] \cup {WordMATCH, WordROOTY, WordIGLOO, WordELIDE, WordBABES}

\* tests::test_game: a session on the given target, which the corpus holds.
InitEval ==
    \E t \in EvalTargets :
        new_with_target(<<to_lowercase(t)>>, <<to_lowercase(t)>>, t) /\ constructed

\* A call compare_guess(g) from outside the session, as the tests call it:
\* it reads target and changes no field.
CompareGuess(g) ==
    /\ guess' = g
    /\ result' = compare_guess(target, g)
    /\ UNCHANGED <<wordlist, valid_guesses, target, entry, last_error, guesses, clues, host>>

\* One call on the fresh session.
NextEval == \E g \in EvalGuesses : guess = <<>> /\ CompareGuess(g)

SpecEval == InitEval /\ [][NextEval]_vars

(***************************************************************************)
(* The evaluator of main.rs called on the same targets and guesses.        *)
(***************************************************************************)
\* A call of main.rs's compare_guess(g) on a fresh session.
CompareGuessMain(g) ==
    /\ guess' = g
    /\ result' = compare_guess_main(target, g)
    /\ UNCHANGED <<wordlist, valid_guesses, target, entry, last_error, guesses, clues, host>>

NextEvalMain == \E g \in EvalGuesses : guess = <<>> /\ CompareGuessMain(g)

SpecEvalMain == InitEval /\ [][NextEvalMain]_vars

(***************************************************************************)
(* The evaluator called at any moment of a session: compare_guess is       *)
(* public, and a caller may ask it between any two inputs.                 *)
(***************************************************************************)
\* ABBAB, BABAA, AAAAA
PureGuesses ==
    {str_to_ascii_uppercase(WordAbbab), str_to_ascii_uppercase(WordBabaa),
     str_to_ascii_uppercase(WordAaaaa)}

InitPure ==
    \E t \in {str_to_ascii_uppercase(WordAbbab)} :
        new_with_target(<<WordAbbab>>, <<WordAbbab>>, t) /\ constructed

NextPure ==
    \/ \E c \in LetterKeys : Input(c)
    \/ Delete
    \/ Submit
    \/ \E g \in PureGuesses : CompareGuess(g)

SpecPure == InitPure /\ [][NextPure]_vars

(***************************************************************************)
(* main up to the session: WordSet::load, then RusdleState::new.           *)
(***************************************************************************)
\* The calendar days before and after the epoch that the clock may show.
MaxDays == 3

SecondsPerDay == 86400

\* The width of usize.
UsizeBits == 64

\* The lines of include_str!("../data/wordlist.txt") and of
\* include_str!("../data/guesses.txt"): lowercase words, the targets of the
\* tests among them.
EmbeddedWordlist == <<to_lowercase(WordFRAME), to_lowercase(WordMATCH)>>
EmbeddedGuesses == <<to_lowercase(WordNOOBS)>>

\* What one source gives: the embedded list when no path is given, else
\* what lines_from_file returns, every line as it is.
source_result(path, embedded) ==
    IF path.kind = "none" THEN [ok |-> TRUE, lines |-> embedded]
    ELSE IF path.kind = "unreadable" THEN [ok |-> FALSE, lines |-> <<>>]
    ELSE [ok |-> TRUE, lines |-> path.lines]

\* A load that falls back to the embedded guesses when the guesses file
\* cannot be read.
load_falls_back(wordlist_path, guesses_path) ==
    LET w == source_result(wordlist_path, EmbeddedWordlist)
        g == source_result(guesses_path, EmbeddedGuesses)
    IN  IF ~w.ok
        THEN [ok |-> FALSE, wordlist |-> <<>>, valid_guesses |-> <<>>]
        ELSE [ok |-> TRUE, wordlist |-> w.lines,
              valid_guesses |-> IF g.ok THEN g.lines ELSE EmbeddedGuesses]

\* WordSet::load: each ? returns the error of its source.
load(wordlist_path, guesses_path) ==
    LET w == source_result(wordlist_path, EmbeddedWordlist)
        g == source_result(guesses_path, EmbeddedGuesses)
    IN  IF ~w.ok \/ ~g.ok
        THEN [ok |-> FALSE, wordlist |-> <<>>, valid_guesses |-> <<>>]
        ELSE [ok |-> TRUE, wordlist |-> w.lines, valid_guesses |-> g.lines]

\* i64 division: the quotient is truncated toward zero.
trunc_div(a, b) == IF a >= 0 THEN a \div b ELSE -((-a) \div b)

\* b^e modulo m.
RECURSIVE pow_mod(_, _, _)
pow_mod(b, e, m) == IF e = 0 THEN 1 % m ELSE (b * pow_mod(b, e - 1, m)) % m

\* idx as usize % len: a negative idx wraps to 2^UsizeBits + idx.
as_usize_rem(idx, len) ==
    IF idx >= 0 THEN idx % len
    ELSE (pow_mod(2, UsizeBits, len) + (idx % len)) % len

\* today's local midnight timestamp minus the epoch's: whole days between
\* the two local dates, shifted by the difference of their UTC offsets.
seconds_since_epoch(c) == c.days * SecondsPerDay + c.shift

\* idx of word_of_the_day
day_index(c) == trunc_div(seconds_since_epoch(c), SecondsPerDay)

\* WordSet::word_of_the_day, on a word list that is not empty.
word_of_the_day(c) ==
    str_to_ascii_uppercase(wordlist[as_usize_rem(day_index(c), Len(wordlist)) + 1])

\* A random_word that draws from the guesses list.
random_word_from_guesses ==
    {str_to_ascii_uppercase(valid_guesses[i]) : i \in 1..Len(valid_guesses)}

\* WordSet::random_word: any element of wordlist, uppercased.
random_word ==
    {str_to_ascii_uppercase(wordlist[i]) : i \in 1..Len(wordlist)}

\* The fields new_with_target gives the session it returns.
new_session(t) ==
    /\ target' = t
    /\ last_error' = <<>>
    /\ entry' = <<>>
    /\ guesses' = <<>>
    /\ clues' = <<>>

\* main: WordSet::load(cli.word_list, cli.dictionary)?
Load ==
    /\ pc = "start"
    /\ LET r == load(cli.word_list, cli.dictionary)
       IN  IF r.ok
           THEN /\ wordlist' = r.wordlist
                /\ valid_guesses' = r.valid_guesses
                /\ pc' = "loaded"
           ELSE /\ pc' = "load_error"
                /\ UNCHANGED <<wordlist, valid_guesses>>
    /\ UNCHANGED <<target, entry, last_error, guesses, clues, guess, result,
                   cli, clock, query, answer>>

\* main: RusdleState::new(words, cli.mode). An empty word list makes
\* unwrap (RandomWord) or the remainder by zero (Wordle) panic, and a word
\* that is_valid refuses makes the assertion of new_with_target panic.
New ==
    /\ pc = "loaded"
    /\ IF wordlist = <<>>
       THEN /\ pc' = "panic"
            /\ UNCHANGED <<target, entry, last_error, guesses, clues>>
       ELSE \E t \in (IF cli.mode = "RandomWord"
                      THEN random_word
                      ELSE {word_of_the_day(clock)}) :
                IF is_valid(t)
                THEN pc' = "session" /\ new_session(t)
                ELSE /\ pc' = "panic"
                     /\ UNCHANGED <<target, entry, last_error, guesses, clues>>
    /\ UNCHANGED <<wordlist, valid_guesses, guess, result, cli, clock, query, answer>>

\* A call of is_valid(w) on the corpus that load returned.
IsValid(w) ==
    /\ pc \in {"loaded", "session"}
    /\ query' = w
    /\ answer' = is_valid(w)
    /\ UNCHANGED <<wordlist, valid_guesses, target, entry, last_error, guesses,
                   clues, guess, result, pc, cli, clock>>

\* "aabba", "Abbab", "ab"
WordAabba == <<97, 97, 98, 98, 97>>
WordCapital == <<65, 98, 98, 97, 98>>
WordShort == <<97, 98>>

\* The sources a caller may name: none, an unreadable path, a well-formed
\* file of three words, one of one word, one with a capitalised word, an
\* empty file and one with a short line.
Sources ==
    {NoPath, Unreadable,
     FileOf(<<WordAbbab, WordBabaa, WordAabba>>),
     FileOf(<<WordAaaaa>>),
     FileOf(<<WordCapital>>),
     FileOf(<<>>),
     FileOf(<<WordShort>>)}

Modes == {"Wordle", "RandomWord"}

\* The local date as days after 2021-06-19, and the seconds by which the
\* UTC offset at the epoch's midnight exceeds the one at today's midnight.
Clocks ==
    {c \in [days : (-MaxDays)..MaxDays, shift : {-3600, 0, 3600}] :
        c.days = 0 => c.shift = 0}

\* ABBAB, abbab, Abbab, BABAA, AAAAA, FRAME
QueryWords ==
    {str_to_ascii_uppercase(WordAbbab), WordAbbab, WordCapital,
     str_to_ascii_uppercase(WordBabaa), str_to_ascii_uppercase(WordAaaaa),
     WordFRAME}

InitStart ==
    /\ pc = "start"
    /\ cli \in [word_list : Sources, dictionary : Sources, mode : Modes]
    /\ clock \in Clocks
    /\ wordlist = <<>>
    /\ valid_guesses = <<>>
    /\ target = <<>>
    /\ entry = <<>>
    /\ last_error = <<>>
    /\ guesses = <<>>
    /\ clues = <<>>
    /\ guess = <<>>
    /\ result = <<>>
    /\ query = <<>>
    /\ answer = FALSE

NextStart ==
    \/ Load
    \/ New
    \/ \E w \in QueryWords : IsValid(w)

SpecStart == InitStart /\ [][NextStart]_vars

(***************************************************************************)
(* WordSet::load, RusdleState::new and then the session driven through     *)
(* handle_input: a caller that plays on the corpus load returned.          *)
(***************************************************************************)
\* The word lists a caller may name here: none, an empty file, a file with
\* a short line.
GameWordLists == {NoPath, FileOf(<<>>), FileOf(<<WordShort>>)}

\* The dictionaries: none, a file of one word.
GameDictionaries == {NoPath, FileOf(<<WordBabaa>>)}

InitGame ==
    /\ pc = "start"
    /\ cli \in [word_list : GameWordLists, dictionary : GameDictionaries, mode : Modes]
    /\ clock = [days |-> 0, shift |-> 0]
    /\ wordlist = <<>>
    /\ valid_guesses = <<>>
    /\ target = <<>>
    /\ entry = <<>>
    /\ last_error = <<>>
    /\ guesses = <<>>
    /\ clues = <<>>
    /\ guess = <<>>
    /\ result = <<>>
    /\ query = <<>>
    /\ answer = FALSE

\* handle_input is called on a session that new has returned.
NextGame ==
    \/ Load
    \/ New
    \/ pc = "session" /\ \E c \in LetterKeys : Input(c)
    \/ pc = "session" /\ Delete
    \/ pc = "session" /\ Submit

SpecGame == InitGame /\ [][NextGame]_vars

(***************************************************************************)
(* The program of main.rs: load, new, then the loop that renders, tests    *)
(* is_over and reads one key.                                              *)
(***************************************************************************)
\* KeyCode::Char(c), KeyCode::Backspace, KeyCode::Enter and any other code.
Char(c) == [kind |-> "Char", c |-> c]
Backspace == [kind |-> "Backspace", c |-> 0]
Enter == [kind |-> "Enter", c |-> 0]
Esc == [kind |-> "Esc", c |-> 0]

is_ascii_alphabetic(c) == c \in 65..90 \/ c \in 97..122

\* RusdleState::process_guess of main.rs
process_guess_main ==
    IF ~is_valid(entry)
    THEN /\ last_error' = <<format_error(entry)>>
         /\ UNCHANGED <<entry, guesses, clues, guess, result>>
    ELSE LET g == entry
             r == compare_guess_main(target, g)
         IN  /\ last_error' = <<>>
             /\ guess' = g
             /\ result' = r
             /\ clues' = merge_clues(clues, g, r, 1)
             /\ guesses' = Append(guesses, <<g, r>>)
             /\ entry' = <<>>

\* RusdleState::handle_key. When compare_guess panics the process ends
\* inside process_guess, which has cleared last_error by then.
handle_key(code) ==
    IF code.kind = "Char" /\ is_ascii_alphabetic(code.c)
    THEN /\ IF str_len(entry) < 5
            THEN entry' = Append(entry, to_ascii_uppercase(code.c))
            ELSE entry' = entry
         /\ UNCHANGED <<last_error, guesses, clues, guess, result, pc>>
    ELSE IF code.kind = "Backspace"
    THEN /\ IF str_len(entry) > 0
            THEN entry' = SubSeq(entry, 1, Len(entry) - 1)
            ELSE entry' = entry
         /\ UNCHANGED <<last_error, guesses, clues, guess, result, pc>>
    ELSE IF code.kind = "Enter"
    THEN IF str_len(entry) = 5 /\ is_valid(entry) /\ compare_guess_aborts(target, entry)
         THEN /\ pc' = "panic"
              /\ last_error' = <<>>
              /\ UNCHANGED <<entry, guesses, clues, guess, result>>
         ELSE /\ pc' = pc
              /\ IF str_len(entry) = 5
                 THEN process_guess_main
                 ELSE UNCHANGED <<entry, last_error, guesses, clues, guess, result>>
    ELSE UNCHANGED <<entry, last_error, guesses, clues, guess, result, pc>>

\* A turn of a loop that reads the key without the test of is_over.
Key_ungated(code) ==
    /\ pc = "session"
    /\ Len(guesses) < MaxGuesses
    /\ handle_key(code)
    /\ UNCHANGED <<wordlist, valid_guesses, target, cli, clock, query, answer>>

\* One turn of the loop that passes every test: the game is not over, the
\* event is a key without Control, and handle_key gets its code. Events
\* of any other kind leave everything as it is.
Key(code) ==
    /\ pc = "session"
    /\ ~is_over
    /\ Len(guesses) < MaxGuesses
    /\ handle_key(code)
    /\ UNCHANGED <<wordlist, valid_guesses, target, cli, clock, query, answer>>

\* The turn of the loop that finds the game over: break.
Break ==
    /\ pc = "session"
    /\ is_over
    /\ pc' = "exit"
    /\ UNCHANGED <<wordlist, valid_guesses, target, entry, last_error, guesses,
                   clues, guess, result, cli, clock, query, answer>>

\* The turn of the loop that reads Control-c: break.
CtrlC ==
    /\ pc = "session"
    /\ ~is_over
    /\ pc' = "exit"
    /\ UNCHANGED <<wordlist, valid_guesses, target, entry, last_error, guesses,
                   clues, guess, result, cli, clock, query, answer>>

\* render or read returns an error, which main returns: render comes before
\* the test of is_over, read after it.
IoError ==
    /\ pc = "session"
    /\ pc' = "io_error"
    /\ UNCHANGED <<wordlist, valid_guesses, target, entry, last_error, guesses,
                   clues, guess, result, cli, clock, query, answer>>

\* 'a', 'B', '1', Backspace, Enter, Esc
KeyCodes == {Char(97), Char(66), Char(49), Backspace, Enter, Esc}

\* The word lists and dictionaries named on the command line.
MainWordLists == {NoPath, FileOf(<<WordAbbab>>), FileOf(<<WordShort>>)}
MainDictionaries == {NoPath, FileOf(<<WordBabaa>>)}

InitMain ==
    /\ pc = "start"
    /\ cli \in [word_list : MainWordLists, dictionary : MainDictionaries, mode : Modes]
    /\ clock = [days |-> 0, shift |-> 0]
    /\ wordlist = <<>>
    /\ valid_guesses = <<>>
    /\ target = <<>>
    /\ entry = <<>>
    /\ last_error = <<>>
    /\ guesses = <<>>
    /\ clues = <<>>
    /\ guess = <<>>
    /\ result = <<>>
    /\ query = <<>>
    /\ answer = FALSE

NextMain ==
    \/ Load
    \/ New
    \/ \E code \in KeyCodes : Key(code)
    \/ Break
    \/ CtrlC
    \/ IoError

SpecMain == InitMain /\ [][NextMain]_vars

(***************************************************************************)
(* Properties of the evaluator, checked under SpecEval.                    *)
(***************************************************************************)
\* The number of positions of word s that hold letter c.
Count(s, c) == Cardinality({i \in 1..Len(s) : s[i] = c})

Min(a, b) == IF a <= b THEN a ELSE b

Letters(s) == {s[i] : i \in 1..Len(s)}

\* A compare_guess call has returned.
Evaluated == guess # <<>>

\* C1 - Letter accounting: for every target, guess and letter c, the number
\* of positions i with guess[i] = c whose clue is Correct or Present equals
\* min(number of c in guess, number of c in target).
LetterAccounting ==
    Evaluated =>
        /\ Len(result) = 5
        /\ \A c \in Letters(guess) \cup Letters(target) :
              Cardinality({i \in 1..5 :
                  guess[i] = c /\ result[i] \in {RES_PRESENT, RES_CORRECT}})
                = Min(Count(guess, c), Count(target, c))

\* A letter that the guess holds more often than the target, which holds it,
\* and that got Wrong at one position and Present at another.
LetterAccountingWitness ==
    /\ Evaluated
    /\ \E c \in Letters(guess) :
          /\ Count(target, c) >= 1
          /\ Count(guess, c) > Count(target, c)
          /\ \E i, j \in 1..5 :
                /\ guess[i] = c /\ result[i] = RES_WRONG
                /\ guess[j] = c /\ result[j] = RES_PRESENT

\* The copies of c in target t that guess g does not match positionally.
UnmatchedCopies(t, g, c) == Cardinality({k \in 1..5 : t[k] = c /\ g[k] # c})

\* The non-matching positions before i where guess g holds c.
EarlierMisses(t, g, c, i) ==
    Cardinality({j \in 1..(i - 1) : g[j] = c /\ t[j] # c})

\* C2 - The evaluator is not greedy and consumes the pool left to right: a
\* guess letter c at a non-matching position gets Present exactly while an
\* unmatched copy of c remains in the target, so the Present clues of c go
\* to its leftmost non-matching positions and the later ones get Wrong;
\* FRAME/ELIDE gives xxxx! and ABBEY/BABES gives ??!!x.
PoolLeftToRight ==
    Evaluated =>
        /\ \A i \in 1..5 :
              guess[i] # target[i] =>
                  result[i] =
                      IF EarlierMisses(target, guess, guess[i], i)
                            < UnmatchedCopies(target, guess, guess[i])
                      THEN RES_PRESENT
                      ELSE RES_WRONG
        /\ (target = WordFRAME /\ guess = WordELIDE)
              => result = <<RES_WRONG, RES_WRONG, RES_WRONG, RES_WRONG, RES_CORRECT>>
        /\ (target = WordABBEY /\ guess = WordBABES)
              => result = <<RES_PRESENT, RES_PRESENT, RES_CORRECT, RES_CORRECT, RES_WRONG>>

\* ABBEY/BABES has been evaluated: the first B took the one unmatched B of
\* the target and the last B got Wrong.
PoolLeftToRightWitness ==
    /\ target = WordABBEY
    /\ guess = WordBABES
    /\ result[1] = RES_PRESENT
    /\ result[5] = RES_WRONG

\* C3 - Correct-position primacy: for every position i, target[i] = guess[i]
\* exactly when the clue of i is Correct, so a word evaluated against itself
\* gives five Correct.
CorrectPrimacy ==
    Evaluated =>
        /\ \A i \in 1..5 : (target[i] = guess[i]) <=> (result[i] = RES_CORRECT)
        /\ guess = target => result = [i \in 1..5 |-> RES_CORRECT]

\* A position that matches while the same letter is also at a non-matching
\* position of the guess and at an unmatched position of the target.
CorrectPrimacyWitness ==
    /\ Evaluated
    /\ \E i, j, k \in 1..5 :
          /\ guess[i] = target[i]
          /\ result[i] = RES_CORRECT
          /\ guess[j] = guess[i] /\ target[j] # guess[j]
          /\ target[k] = guess[i] /\ guess[k] # target[k]

(***************************************************************************)
(* Properties of the session, checked under Spec and SpecAny.              *)
(***************************************************************************)
\* C4 - History bound: after any sequence of handle_input events on a fresh
\* session, at most 6 guesses are recorded.
HistoryBound == Len(guesses) <= 6

\* C5 - Once is_over() is true, handle_input ignores further input: a Submit
\* and a Char(c) leave entry, history, clues and last_error unchanged.
IgnoredAfterOver ==
    [][(is_over /\ (Submit \/ \E c \in LetterKeys : Input(c)))
          => UNCHANGED <<entry, guesses, clues, last_error>>]_vars

\* The entry is five chars of one byte each: entry.len() = 5.
FullEntry == Len(entry) = 5 /\ str_len(entry) = 5

\* C6 - Rejected submit: a Submit with a 5-letter entry that is in neither
\* word list sets last_error to "Word '<entry>' is not valid." and leaves
\* entry, history and clues unchanged.
RejectedSubmit ==
    [][(Submit /\ FullEntry /\ ~is_valid(entry))
          => /\ last_error' = <<MsgPrefix \o entry \o MsgSuffix>>
             /\ UNCHANGED <<entry, guesses, clues>>]_vars

\* A rejected word stands in the entry with its message, after a guess was
\* recorded.
RejectedSubmitWitness ==
    /\ FullEntry
    /\ ~is_valid(entry)
    /\ last_error = <<MsgPrefix \o entry \o MsgSuffix>>
    /\ Len(guesses) >= 1

\* C7 - last_error lifecycle: it is absent at first; a Submit of a full
\* entry leaves it present exactly when the entry was rejected as invalid
\* (an accepted one clears it); Char, Delete and ignored Submit events leave
\* it as it was.
LastErrorLifecycle ==
    /\ last_error = <<>>
    /\ [][IF Submit /\ str_len(entry) = 5
          THEN (last_error' # <<>>) <=> ~is_valid(entry)
          ELSE last_error' = last_error]_vars

\* A message survives the edits of the entry that followed its rejection.
LastErrorLifecycleWitness ==
    /\ last_error # <<>>
    /\ last_error # <<MsgPrefix \o entry \o MsgSuffix>>
    /\ Len(entry) = 5
    /\ Len(guesses) >= 1

\* The clues letter c received over all recorded guesses.
CluesReceived(c) ==
    {r \in RES_DEFAULT..RES_CORRECT :
        \E n \in 1..Len(guesses), i \in 1..5 :
            guesses[n][1][i] = c /\ guesses[n][2][i] = r}

Max(S) == CHOOSE x \in S : \A y \in S : y <= x

\* The chars of the recorded guesses.
GuessedChars == UNION {Letters(guesses[n][1]) : n \in 1..Len(guesses)}

\* C8 - Cumulative clue invariant: for every letter c, clues[c] is the
\* maximum, under Default < Wrong < Present < Correct, of the clues c got
\* over all records; a letter of no recorded guess has no entry, and no
\* entry is Default.
CluesAreMax ==
    /\ DOMAIN clues = GuessedChars
    /\ \A c \in DOMAIN clues :
          /\ clues[c] = Max(CluesReceived(c))
          /\ clues[c] # RES_DEFAULT

\* The last position of guess g that holds c.
LastPosition(g, c) == Max({i \in 1..Len(g) : g[i] = c})

\* A letter is Correct in clues although the clue it got last, at its last
\* position of the latest record, is lower.
CluesAreMaxWitness ==
    /\ Len(guesses) >= 1
    /\ \E c \in Letters(guesses[Len(guesses)][1]) :
          /\ clues[c] = RES_CORRECT
          /\ LET rec == guesses[Len(guesses)]
             IN  rec[2][LastPosition(rec[1], c)] < RES_CORRECT

\* C9 - Clue monotonicity: over any sequence of inputs the value of clues[c]
\* never decreases under the clue order and no entry is removed.
ClueMonotonicity ==
    [][\A c \in DOMAIN clues : c \in DOMAIN clues' /\ clues'[c] >= clues[c]]_vars

\* A letter that an earlier guess marked Correct stays Correct after a later
\* guess placed it at a wrong position.
ClueMonotonicityWitness ==
    /\ Len(guesses) >= 2
    /\ \E c \in DOMAIN clues, n \in 1..(Len(guesses) - 1), i, j \in 1..5 :
          /\ guesses[n][1][i] = c /\ guesses[n][2][i] = RES_CORRECT
          /\ guesses[Len(guesses)][1][j] = c
          /\ guesses[Len(guesses)][2][j] < RES_CORRECT
          /\ clues[c] = RES_CORRECT

\* C10 - Entry-buffer invariant: after any sequence of handle_input events,
\* Char(c) carrying any character, entry holds only the uppercase letters
\* A-Z and its length is between 0 and 5.
EntryUppercaseLetters ==
    /\ Len(entry) <= 5
    /\ str_len(entry) <= 5
    /\ \A i \in 1..Len(entry) : entry[i] \in 65..90

(***************************************************************************)
(* Properties of the corpus and of the target, checked under SpecStart.    *)
(***************************************************************************)
\* The words of the two lists of the corpus.
StoredWords ==
    {wordlist[i] : i \in 1..Len(wordlist)}
        \cup {valid_guesses[i] : i \in 1..Len(valid_guesses)}

\* The letter c without its case.
CaseFolded(c) == IF c \in 97..122 THEN c - 32 ELSE c

\* Words a and b are equal up to the case of their letters.
EqualUpToCase(a, b) ==
    /\ Len(a) = Len(b)
    /\ \A i \in 1..Len(a) : CaseFolded(a[i]) = CaseFolded(b[i])

\* C13 - is_valid is case-insensitive membership: for every corpus built by
\* load and every word, is_valid returns true exactly when some stored word
\* of either list equals the word up to letter case.
CaseInsensitiveMembership ==
    (pc \in {"loaded", "session"} /\ query # <<>>) =>
        (answer <=> \E w \in StoredWords : EqualUpToCase(w, query))

\* The seconds d of a signed difference as whole days, rounded down.
FlooredDays(d) == d \div SecondsPerDay

\* The word list entry of index n modulo the length, uppercased.
SolutionAt(n) ==
    LET w == wordlist[(n % Len(wordlist)) + 1]
    IN  [i \in 1..Len(w) |-> CaseFolded(w[i])]

\* C14 - Daily index arithmetic: word_of_the_day returns
\* solutions[d mod |solutions|] uppercased, d the floored quotient of the
\* signed seconds since the epoch by 86400 and mod the non-negative
\* remainder, also for dates before the epoch.
DailyIndexArithmetic ==
    (pc = "session" /\ cli.mode = "Wordle") =>
        target = SolutionAt(FlooredDays(seconds_since_epoch(clock)))

\* C15 - No DST-driven off-by-one: on the local date n days after the epoch,
\* whatever the difference of the UTC offsets of the two midnights, the
\* index of word_of_the_day is n mod |solutions|.
NoDstOffByOne ==
    (pc = "session" /\ cli.mode = "Wordle" /\ clock.days >= 0) =>
        target = SolutionAt(clock.days)

\* C16 - Target selection: in both modes the target of a session created by
\* new is the uppercase form of a word of the solutions list, so a word
\* that is only in the extras is never the target.
TargetFromSolutions ==
    pc = "session" =>
        /\ \E i \in 1..Len(wordlist) :
              /\ Len(target) = Len(wordlist[i])
              /\ \A k \in 1..Len(target) : target[k] = CaseFolded(wordlist[i][k])
        /\ \A j \in 1..Len(valid_guesses) :
              EqualUpToCase(valid_guesses[j], target)
                  => \E i \in 1..Len(wordlist) : EqualUpToCase(wordlist[i], target)

\* A RandomWord session on a corpus whose extras hold a word that the
\* solutions do not.
TargetFromSolutionsWitness ==
    /\ pc = "session"
    /\ cli.mode = "RandomWord"
    /\ Len(wordlist) >= 2
    /\ \E j \in 1..Len(valid_guesses) :
          \A i \in 1..Len(wordlist) : ~EqualUpToCase(wordlist[i], valid_guesses[j])

\* c is one of the letters a-z, A-Z.
IsLetter(c) == c \in 65..90 \/ c \in 97..122

\* C17 - Corpus invariant: for every corpus returned by load, both word
\* lists are non-empty and every stored word is exactly five alphabetic
\* letters.
CorpusInvariant ==
    pc \in {"loaded", "session", "panic"} =>
        /\ wordlist # <<>>
        /\ valid_guesses # <<>>
        /\ \A w \in StoredWords : Len(w) = 5 /\ \A i \in 1..Len(w) : IsLetter(w[i])

\* One of the two sources of the command line cannot be read.
SomeSourceUnreadable ==
    cli.word_list.kind = "unreadable" \/ cli.dictionary.kind = "unreadable"

\* C19 - Corpus construction: for each source on its own, an absent source
\* yields the embedded list (and a file its lines); when either provided
\* source cannot be read load returns an error and no corpus, whichever of
\* the two failed.
CorpusConstruction ==
    pc # "start" =>
        /\ (pc = "load_error") <=> SomeSourceUnreadable
        /\ SomeSourceUnreadable => (wordlist = <<>> /\ valid_guesses = <<>> /\ target = <<>>)
        /\ ~SomeSourceUnreadable =>
              /\ cli.word_list.kind = "none" => wordlist = EmbeddedWordlist
              /\ cli.word_list.kind = "file" => wordlist = cli.word_list.lines
              /\ cli.dictionary.kind = "none" => valid_guesses = EmbeddedGuesses
              /\ cli.dictionary.kind = "file" => valid_guesses = cli.dictionary.lines

\* load has failed on the second source while the first was absent.
CorpusConstructionWitness ==
    /\ pc = "load_error"
    /\ cli.word_list.kind = "none"
    /\ cli.dictionary.kind = "unreadable"

(***************************************************************************)
(* Properties of Submit, of the terminal tests and of the entry, checked   *)
(* under Spec; the evaluator's purity, checked under SpecPure.             *)
(***************************************************************************)
\* The clue array the rules give guess g on target t, position by position:
\* Correct at a match, else Present while the non-matching copies of the
\* letter to the left are fewer than the unmatched copies in the target.
Evaluate(t, g) ==
    [i \in 1..5 |->
        IF g[i] = t[i] THEN RES_CORRECT
        ELSE IF EarlierMisses(t, g, g[i], i) < UnmatchedCopies(t, g, g[i])
             THEN RES_PRESENT
             ELSE RES_WRONG]

\* C11 - Accepted submit: when the game is not over and entry is a 5-letter
\* word of either list, Submit appends exactly one record
\* (entry, evaluate(target, entry)) at the end of the history, leaves the
\* earlier records unchanged, clears last_error and leaves entry empty.
AcceptedSubmit ==
    [][(Submit /\ ~is_over /\ FullEntry /\ is_valid(entry))
          => /\ guesses' = Append(guesses, <<entry, Evaluate(target, entry)>>)
             /\ last_error' = <<>>
             /\ entry' = <<>>]_vars

\* A guess that is not the target was accepted after an earlier record, and
\* stands last with a Present clue, the entry empty and no message.
AcceptedSubmitWitness ==
    /\ Len(guesses) \in 2..6
    /\ guesses[Len(guesses)][1] # target
    /\ \E i \in 1..5 : guesses[Len(guesses)][2][i] = RES_PRESENT
    /\ \A n \in 1..(Len(guesses) - 1) : guesses[n][1] # target
    /\ entry = <<>>
    /\ last_error = <<>>

\* The word of the most recent record is the target.
LastGuessIsTarget ==
    /\ guesses # <<>>
    /\ guesses[Len(guesses)][1] = target

\* C12 - Terminal conditions: in every reachable state is_win() holds
\* exactly when the most recently recorded guess equals the target (its
\* clues are all Correct), and is_over() holds exactly when is_win() holds
\* or the history has six records.
TerminalConditions ==
    /\ is_win <=> LastGuessIsTarget
    /\ LastGuessIsTarget
          <=> (guesses # <<>> /\ \A i \in 1..5 : guesses[Len(guesses)][2][i] = RES_CORRECT)
    /\ is_over <=> (LastGuessIsTarget \/ Len(guesses) = 6)

\* Six records, the last of them not the target: the game is over and is
\* not won.
TerminalConditionsWitness ==
    /\ Len(guesses) = 6
    /\ ~LastGuessIsTarget
    /\ is_over
    /\ ~is_win

\* A step in which compare_guess was called and nothing was recorded: a
\* call from outside process_guess.
OutsideCall ==
    /\ <<guess, result>>' # <<guess, result>>
    /\ Len(guesses') = Len(guesses)

\* C18 - Evaluator purity: the clue array a call of compare_guess returns is
\* one function of target and guess, so two calls with the same target and
\* guess return the same array whatever entry, history, clues and
\* last_error are at each of them; and a call changes no field of the
\* session.
EvaluatorPurity ==
    /\ [](guess # <<>> => result = Evaluate(target, guess))
    /\ [][(guess # <<>> /\ guess' = guess) => result' = result]_vars
    /\ [][OutsideCall
            => UNCHANGED <<wordlist, valid_guesses, target, entry, last_error,
                           guesses, clues>>]_vars

\* A call from outside has returned in a session with records, an entry
\* and a message: its guess is not the word process_guess evaluated last.
EvaluatorPurityWitness ==
    /\ guess # <<>>
    /\ guess # target
    /\ result = Evaluate(target, guess)
    /\ Len(guesses) >= 2
    /\ guess # guesses[Len(guesses)][1]
    /\ entry # <<>>
    /\ last_error # <<>>

\* C20 - Entry editing and its frame: Char(c) with |entry| < 5 appends
\* uppercase(c) as the last letter and with |entry| = 5 changes nothing;
\* Delete removes exactly the last letter and on an empty entry changes
\* nothing; Submit with |entry| # 5 changes nothing; Char and Delete never
\* change history, clues or last_error.
EntryEditing ==
    [][/\ \A c \in LetterKeys :
            Input(c) =>
                /\ entry' = IF Len(entry) < 5
                            THEN entry \o <<CaseFolded(c)>>
                            ELSE entry
                /\ UNCHANGED <<guesses, clues, last_error>>
       /\ Delete =>
                /\ entry' = IF entry = <<>>
                            THEN entry
                            ELSE [i \in 1..(Len(entry) - 1) |-> entry[i]]
                /\ UNCHANGED <<guesses, clues, last_error>>
       /\ (Submit /\ Len(entry) # 5) =>
                UNCHANGED <<entry, guesses, clues, last_error>>]_vars

\* A full entry typed with the lowercase key, in a session that has a
\* record and a message for the edits to leave alone.
EntryEditingWitness ==
    /\ Len(entry) = 5
    /\ entry[5] = 65
    /\ guesses # <<>>
    /\ clues # <<>>
    /\ last_error # <<>>
    /\ last_error # <<MsgPrefix \o entry \o MsgSuffix>>

(***************************************************************************)
(* Properties of the whole run: load, new, then the inputs.                *)
(***************************************************************************)
\* C21 - Infallible gameplay operations: for every corpus returned by load,
\* new(corpus, mode) succeeds in both modes, and no handle_input event in
\* any reachable state makes the evaluator index the target out of range
\* or otherwise abort: no run reaches a panic.
InfallibleGameplay == pc # "panic"

\* C23 - Game-over is absorbing: over any sequence of handle_input events,
\* once is_over() has returned true it returns true in every later state,
\* and once is_win() has returned true it stays true.
GameOverAbsorbing ==
    [][/\ is_over => is_over'
       /\ is_win => is_win']_vars

(***************************************************************************)
(* The two evaluators against the two-pass algorithm, checked under        *)
(* SpecEvalMain.                                                           *)
(***************************************************************************)
\* Pass 1: the multiset of the target letters that guess g does not match
\* positionally, as the number of copies of each letter.
Pass1Pool(t, g) ==
    [c \in Letters(t) \cup Letters(g) |->
        Cardinality({i \in 1..5 : t[i] # g[i] /\ t[i] = c})]

\* Pass 2 from position i on, with the pool as the earlier positions left
\* it.
RECURSIVE Pass2(_, _, _, _)
Pass2(t, g, i, pool) ==
    IF i > 5 THEN <<>>
    ELSE IF t[i] = g[i]
         THEN <<RES_CORRECT>> \o Pass2(t, g, i + 1, pool)
         ELSE IF pool[g[i]] > 0
              THEN <<RES_PRESENT>>
                     \o Pass2(t, g, i + 1, [pool EXCEPT ![g[i]] = pool[g[i]] - 1])
              ELSE <<RES_WRONG>> \o Pass2(t, g, i + 1, pool)

TwoPass(t, g) == Pass2(t, g, 1, Pass1Pool(t, g))

\* C24 - Evaluator variants agree: the compare_guess of main.rs, which
\* removes a matched pool entry with swap_remove, and the compare_guess of
\* game.rs, which removes one occurrence with remove_item, return the same
\* clue array for every five-letter target and guess, and both equal the
\* two-pass multiset-pool algorithm.
EvaluatorVariantsAgree ==
    Evaluated =>
        /\ result = compare_guess(target, guess)
        /\ result = TwoPass(target, guess)
        /\ compare_guess(target, guess) = TwoPass(target, guess)

\* main.rs's evaluator has returned on a pool of three or more letters
\* whose first removal was not of the last entry, so swap_remove reordered
\* the pool before a later letter was looked up in it.
EvaluatorVariantsAgreeWitness ==
    /\ Evaluated
    /\ LET pool == unmatched_from(target, guess, 1)
       IN  /\ Len(pool) >= 3
           /\ \E i, j \in 1..5 :
                 /\ i < j
                 /\ result[i] = RES_PRESENT
                 /\ \A k \in 1..(i - 1) : result[k] # RES_PRESENT
                 /\ position(pool, guess[i]) < Len(pool) - 1
                 /\ result[j] = RES_PRESENT
                 /\ guess[j] = pool[Len(pool)]

(***************************************************************************)
(* Properties of the program of main.rs, checked under SpecMain.           *)
(***************************************************************************)
\* The clues of the n-th record are all Correct.
AllCorrect(n) == \A i \in 1..5 : guesses[n][2][i] = RES_CORRECT

\* C22 - Host loop gating: the loop tests is_over() before each read of a
\* key, so no key reaches the session once the game is over; in every run
\* the history never exceeds 6 records, no record follows an all-Correct
\* record, and the loop is left at the first state where is_over() holds,
\* or on Control-c.
HostLoopGating ==
    /\ [](Len(guesses) <= 6)
    /\ [](\A n \in 1..(Len(guesses) - 1) : ~AllCorrect(n))
    /\ [][is_over => UNCHANGED <<entry, last_error, guesses, clues, guess, result>>]_vars
    /\ [][(pc = "session" /\ is_over) => pc' # "session"]_vars
    /\ [][(pc = "session" /\ pc' = "exit") => (is_over \/ CtrlC)]_vars
    /\ [][(pc = "session" /\ ~is_over /\ CtrlC) => pc' = "exit"]_vars

\* The loop was left after the sixth record, which is not the target.
HostLoopGatingWitness ==
    /\ pc = "exit"
    /\ Len(guesses) = 6
    /\ ~is_win
    /\ is_over

====
